---- MODULE Spec2Model ----
(***************************************************************************)
(* Precheck / Postcheck auditor (src/app.py): the two file uploaders and   *)
(* the EXECUTE NETWORK AUDIT handler (extract, concatenate, outer join,    *)
(* verify, column reconstruction, dashboard, export).                      *)
(*                                                                         *)
(* Text is a sequence of tokens (characters, or whole words where the code *)
(* never looks inside them), so that strip(), str(), the suffixes and the  *)
(* ', '.join are computed and not assumed.                                 *)
(***************************************************************************)
EXTENDS Integers, Sequences, FiniteSets, TLC

\* ---------------------------------------------------------------- bounds
MaxDocs == 2
MaxTotal == 3
MaxRows == 1

\* ----------------------------------------------------------------- cells
\* A cell of a DataFrame: NaN (blank), a Python int, a float with an integral
\* value, or a str.
NaN == [t |-> "nan", n |-> 0, s |-> <<>>]
IntCell(k) == [t |-> "int", n |-> k, s |-> <<>>]
FloatCell(k) == [t |-> "float", n |-> k, s |-> <<>>]
StrCell(x) == [t |-> "str", n |-> 0, s |-> x]

\* pd.isna / Series.notna on one cell
IsNa(c) == c.t = "nan"

DigitChar(d) ==
  CASE d = 0 -> "0" [] d = 1 -> "1" [] d = 2 -> "2" [] d = 3 -> "3" [] d = 4 -> "4"
    [] d = 5 -> "5" [] d = 6 -> "6" [] d = 7 -> "7" [] d = 8 -> "8" [] OTHER -> "9"

RECURSIVE Digits(_)
Digits(k) == IF k < 10 THEN <<DigitChar(k)>> ELSE Digits(k \div 10) \o <<DigitChar(k % 10)>>

SignedDigits(k) == IF k < 0 THEN <<"-">> \o Digits(0 - k) ELSE Digits(k)

\* Python's str() of a cell value
PyStr(c) ==
  CASE c.t = "nan" -> <<"n", "a", "n">>
    [] c.t = "int" -> SignedDigits(c.n)
    [] c.t = "float" -> SignedDigits(c.n) \o <<".", "0">>
    [] OTHER -> c.s

IsSpace(ch) == ch = " "

RECURSIVE LStrip(_)
LStrip(s) == IF s # <<>> /\ IsSpace(Head(s)) THEN LStrip(Tail(s)) ELSE s

RECURSIVE RStrip(_)
RStrip(s) == IF s # <<>> /\ IsSpace(s[Len(s)]) THEN RStrip(SubSeq(s, 1, Len(s) - 1)) ELSE s

\* str.strip()
Strip(s) == RStrip(LStrip(s))

\* ---------------------------------------------------------------- frames
\* A DataFrame: its column labels in order, and its rows as functions from
\* the set of labels to cells.
Range(f) == {f[i] : i \in DOMAIN f}

NoFrame == [cols |-> <<>>, rows |-> <<>>]

\* DataFrame.empty: an axis of length 0
IsEmpty(df) == Len(df.cols) = 0 \/ Len(df.rows) = 0

SiteFile == <<"Site_File">>
Sector == <<"Sector">>
Name == <<"Name">>
AuditStatus == <<"Audit_Status">>
KeyCols == <<Sector, Name>>
PreSuffix == <<"_Pre">>
PostSuffix == <<"_Post">>

RECURSIVE SeqMap(_, _)
SeqMap(Op(_), s) == IF s = <<>> THEN <<>> ELSE <<Op(Head(s))>> \o SeqMap(Op, Tail(s))

RECURSIVE Flatten(_)
Flatten(ss) == IF ss = <<>> THEN <<>> ELSE Head(ss) \o Flatten(Tail(ss))

\* the elements of s that are not in the set S, in order
Without(s, S) == SelectSeq(s, LAMBDA x : x \notin S)

\* ------------------------------------------------------------- documents
\* An uploaded file: its name split at "_", the names of its sheets, and
\* the Summary sheet as read_excel returns it (header labels, rows by position).
PrecheckNames ==
  { <<"precheck", "S1", "a.xlsx">>, <<"Postcheck", "S1", "a.xlsx">> }
PostcheckNames ==
  { <<"Postcheck", "S2", "b.xlsx">>, <<"Precheck", "S2", "b.xlsx">> }

\* str.lower() on the first part of a file name
Lower(w) ==
  CASE w = "Precheck" -> "precheck"
    [] w = "Postcheck" -> "postcheck"
    [] OTHER -> w

\* f.name.lower().startswith(prefix): the names used here have no "_" inside the prefix
StartsWithLower(name, prefix) == name # <<>> /\ Lower(name[1]) = prefix

\* re.search(r"^(?:Precheck|Postcheck)_([^_]+)_", f.name), then group(1) or "Unknown"
SiteName(name) ==
  IF Len(name) >= 3 /\ name[1] \in {"Precheck", "Postcheck"} /\ name[2] # ""
  THEN StrCell(<<name[2]>>)
  ELSE StrCell(<<"Unknown">>)

RawHeaders ==
  { << <<"Sec">>, <<"Cell">>, <<"A">> >>,
    << <<"Sec">>, <<"Cell">>, <<"A", " ">>, <<" ", "B">> >> }

SectorCells == { StrCell(<<"S", "1">>) }
NameCells == { StrCell(<<"N", "1">>), StrCell(<<"N", "2">>), NaN }
FirstCells == { NaN, IntCell(7), StrCell(<<" ", "7">>), StrCell(<<"8">>) }
OtherCells == { NaN, StrCell(<<"8">>) }

\* the cells a sheet can hold in its i-th column
CellsAt(i) ==
  CASE i = 1 -> SectorCells
    [] i = 2 -> NameCells
    [] i = 3 -> FirstCells
    [] OTHER -> OtherCells

RowsOf(header) == { r \in [1 .. Len(header) -> SectorCells \cup NameCells \cup FirstCells \cup OtherCells] :
                      \A i \in 1 .. Len(header) : r[i] \in CellsAt(i) }

RECURSIVE SeqsUpTo(_, _)
SeqsUpTo(S, k) ==
  IF k = 0 THEN { <<>> }
  ELSE LET shorter == SeqsUpTo(S, k - 1)
       IN shorter \cup { Append(q, x) : q \in { p \in shorter : Len(p) = k - 1 }, x \in S }

\* read_excel infers one dtype per column: a column of numbers with a blank is
\* float64, so an int never stands beside a NaN unless a str makes it object
Inferred(col) ==
  IF (\E i \in DOMAIN col : col[i].t = "str") \/ (\A i \in DOMAIN col : col[i].t = "int")
  THEN col
  ELSE [i \in DOMAIN col |-> IF col[i].t = "int" THEN FloatCell(col[i].n) ELSE col[i]]

WellTyped(header, rows) ==
  \A j \in 1 .. Len(header) :
    LET col == [i \in 1 .. Len(rows) |-> rows[i][j]] IN Inferred(col) = col

Sheets ==
  UNION { { [header |-> h, rows |-> rs] :
              rs \in { q \in SeqsUpTo(RowsOf(h), MaxRows) : WellTyped(h, q) } } : h \in RawHeaders }

NoSheet == [header |-> <<>>, rows |-> <<>>]

Docs(names) ==
  { [name |-> nm, sheets |-> {"Summary"}, summary |-> sh] : nm \in names, sh \in Sheets } \cup
  { [name |-> nm, sheets |-> {"Sheet1"}, summary |-> NoSheet] : nm \in names }

PreDocs == Docs(PrecheckNames)
PostDocs == Docs(PostcheckNames)

\* ------------------------------------------------------------ extraction
\* position of a label in a list of labels
IndexOf(cols, c) == CHOOSE i \in 1 .. Len(cols) : cols[i] = c

\* lines 69-74: one uploaded file as a normalized frame (the file has a Summary sheet)
ExtractOne(f) ==
  LET stripped == SeqMap(Strip, f.summary.header)
      inserted == <<SiteFile>> \o stripped
      renamed == [i \in 1 .. Len(inserted) |->
                    IF inserted[i] = inserted[2] THEN Sector
                    ELSE IF inserted[i] = inserted[3] THEN Name
                    ELSE inserted[i]]
      site == SiteName(f.name)
      MkRow(r) == [c \in Range(renamed) |->
                     LET i == IndexOf(renamed, c) IN IF i = 1 THEN site ELSE r[i - 1]]
  IN [cols |-> renamed, rows |-> SeqMap(MkRow, f.summary.rows)]

RECURSIVE Dedup(_)
Dedup(s) ==
  IF s = <<>> THEN <<>>
  ELSE LET init == Dedup(SubSeq(s, 1, Len(s) - 1))
           last == s[Len(s)]
       IN IF last \in Range(init) THEN init ELSE Append(init, last)

\* the dtype a column gets when frames are put together: the rule of Inferred,
\* applied to every column of a list of rows
Upcast(cols, rows) ==
  LET typed == [c \in Range(cols) |-> Inferred([i \in 1 .. Len(rows) |-> rows[i][c]])]
  IN IF rows = <<>> THEN <<>>
     ELSE [i \in 1 .. Len(rows) |-> [c \in Range(cols) |-> typed[c][i]]]

\* line 76: pd.concat(frames, ignore_index=True); a column a frame lacks is NaN there
Concat(frames) ==
  LET cols == Dedup(Flatten(SeqMap(LAMBDA d : d.cols, frames)))
      Widen(d) == SeqMap(LAMBDA r : [c \in Range(cols) |-> IF c \in DOMAIN r THEN r[c] ELSE NaN],
                         d.rows)
  IN [cols |-> cols, rows |-> Upcast(cols, Flatten(SeqMap(Widen, frames)))]

HasSummary(f) == "Summary" \in f.sheets

\* process_files leaving out the documents without a Summary sheet
process_files_Skip(uploaded_list) ==
  IF uploaded_list = <<>> THEN [raised |-> "", df |-> NoFrame]
  ELSE IF \A i \in DOMAIN uploaded_list : ~HasSummary(uploaded_list[i])
  THEN [raised |-> "ValueError", df |-> NoFrame]
  ELSE [raised |-> "", df |-> Concat(SeqMap(ExtractOne, SelectSeq(uploaded_list, HasSummary)))]

\* lines 65-76: [raised, df]; read_excel raises ValueError on a file without the sheet
process_files(uploaded_list) ==
  IF uploaded_list = <<>> THEN [raised |-> "", df |-> NoFrame]
  ELSE IF \E i \in DOMAIN uploaded_list : ~HasSummary(uploaded_list[i])
  THEN [raised |-> "ValueError", df |-> NoFrame]
  ELSE [raised |-> "", df |-> Concat(SeqMap(ExtractOne, uploaded_list))]

\* the lists an uploader can hold, and process_files tabulated over them
Validated(docs, prefix) == { f \in docs : StartsWithLower(f.name, prefix) }

Uploads ==
  SeqsUpTo(Validated(PreDocs, "precheck"), MaxDocs) \cup
  SeqsUpTo(Validated(PostDocs, "postcheck"), MaxDocs)

Processed == [fs \in Uploads |-> process_files(fs)]

\* ------------------------------------------------------------ outer join
KeyOf(r) == <<r[Sector], r[Name]>>

Alphabet == <<" ", "1", "2", "7", "8", "A", "B", "N", "S">>

CharRank(ch) == CHOOSE i \in 1 .. Len(Alphabet) : Alphabet[i] = ch

RECURSIVE TextLess(_, _)
TextLess(a, b) ==
  IF a = <<>> THEN b # <<>>
  ELSE IF b = <<>> THEN FALSE
  ELSE IF Head(a) = Head(b) THEN TextLess(Tail(a), Tail(b))
  ELSE CharRank(Head(a)) < CharRank(Head(b))

\* the order of key values in a sorted join: NaN after every value
CellLess(a, b) ==
  IF IsNa(a) THEN FALSE
  ELSE IF IsNa(b) THEN TRUE
  ELSE IF a.t = "str" /\ b.t = "str" THEN TextLess(a.s, b.s)
  ELSE a.n < b.n

KeyLess(j, k) == CellLess(j[1], k[1]) \/ (j[1] = k[1] /\ CellLess(j[2], k[2]))

RECURSIVE SortKeys(_)
SortKeys(S) ==
  IF S = {} THEN <<>>
  ELSE LET least == CHOOSE k \in S : \A j \in S \ {k} : KeyLess(k, j)
       IN <<least>> \o SortKeys(S \ {least})

\* the dtype pandas gives a key column
KeyDtype(df, k) ==
  IF \E i \in DOMAIN df.rows : df.rows[i][k].t = "str" THEN "object"
  ELSE IF \A i \in DOMAIN df.rows : df.rows[i][k].t = "int" THEN "int64"
  ELSE "float64"

\* merge looks the keys up in both frames: KeyError when a frame has no such column
MergeKeyError(left, right) ==
  \E i \in DOMAIN KeyCols : KeyCols[i] \notin Range(left.cols) \/ KeyCols[i] \notin Range(right.cols)

\* merge refuses a text key column against a numeric one (an all-blank key
\* column is float64) when both frames have rows: ValueError
MergeDtypeError(left, right) ==
  /\ left.rows # <<>>
  /\ right.rows # <<>>
  /\ \E i \in DOMAIN KeyCols :
       LET a == KeyDtype(left, KeyCols[i])
           b == KeyDtype(right, KeyCols[i])
       IN a # b /\ "object" \in {a, b}

\* the non-key labels both frames have: these get the suffixes
Overlap(left, right) == (Range(left.cols) \cap Range(right.cols)) \ Range(KeyCols)

Suffixed(c, over, suffix) == IF c \in over THEN c \o suffix ELSE c

\* one joined record over the merged labels: the key, the left row's cells and
\* the right row's cells (NaN where that side has no row); lnames and rnames are
\* the merged labels of left.cols and of right.cols
Combine(left, right, lnames, rnames, k, hasL, l, hasR, r) ==
  [c \in Range(lnames) \cup Range(rnames) |->
     IF c \in Range(KeyCols) THEN k[IndexOf(KeyCols, c)]
     ELSE IF c \in Range(lnames)
     THEN IF hasL THEN l[left.cols[IndexOf(lnames, c)]] ELSE NaN
     ELSE IF hasR THEN r[right.cols[IndexOf(rnames, c)]] ELSE NaN]

\* JoinRows of an inner join: the keys of one side only give no record
JoinRows_Inner(left, right, lnames, rnames, k) ==
  LET L == SelectSeq(left.rows, LAMBDA x : KeyOf(x) = k)
      R == SelectSeq(right.rows, LAMBDA x : KeyOf(x) = k)
      Both(l) == SeqMap(LAMBDA r : Combine(left, right, lnames, rnames, k, TRUE, l, TRUE, r), R)
  IN Flatten(SeqMap(Both, L))

\* how='outer': the records of one key: every pairing when both sides have
\* the key, else the rows of the side that has it
JoinRows(left, right, lnames, rnames, k) ==
  LET L == SelectSeq(left.rows, LAMBDA x : KeyOf(x) = k)
      R == SelectSeq(right.rows, LAMBDA x : KeyOf(x) = k)
      Both(l) == SeqMap(LAMBDA r : Combine(left, right, lnames, rnames, k, TRUE, l, TRUE, r), R)
  IN IF L # <<>> /\ R # <<>> THEN Flatten(SeqMap(Both, L))
     ELSE IF L # <<>>
     THEN SeqMap(LAMBDA l : Combine(left, right, lnames, rnames, k, TRUE, l, FALSE, <<>>), L)
     ELSE SeqMap(LAMBDA r : Combine(left, right, lnames, rnames, k, FALSE, <<>>, TRUE, r), R)

\* line 82: pd.merge(df_pre, df_post, on=['Sector', 'Name'], how='outer',
\* suffixes=('_Pre', '_Post')), keys in sorted order
Merge(left, right) ==
  IF MergeKeyError(left, right) THEN [raised |-> "KeyError", df |-> NoFrame]
  ELSE IF MergeDtypeError(left, right) THEN [raised |-> "ValueError", df |-> NoFrame]
  ELSE LET over == Overlap(left, right)
           lnames == SeqMap(LAMBDA c : Suffixed(c, over, PreSuffix), left.cols)
           rnames == SeqMap(LAMBDA c : Suffixed(c, over, PostSuffix), right.cols)
           cols == lnames \o Without(rnames, Range(KeyCols))
           keys == {KeyOf(left.rows[i]) : i \in DOMAIN left.rows} \cup
                   {KeyOf(right.rows[i]) : i \in DOMAIN right.rows}
           rows == Flatten(SeqMap(LAMBDA k : JoinRows(left, right, lnames, rnames, k),
                                  SortKeys(keys)))
       IN [raised |-> "", df |-> [cols |-> cols, rows |-> Upcast(cols, rows)]]

\* ---------------------------------------------------------------- verify
\* lines 84-88: the authoritative status columns
StatusCols(pre, post) ==
  IF ~IsEmpty(pre) THEN Without(pre.cols, {SiteFile, Sector, Name})
  ELSE IF ~IsEmpty(post) THEN Without(post.cols, {SiteFile, Sector, Name})
  ELSE <<>>

\* pd.isna(row.get(label)): a label the row lacks gives None, which is NA
GetIsNa(row, label) == label \notin DOMAIN row \/ IsNa(row[label])

OkText == <<"OK">>
MissingPostText == <<"MISSING", " ", "POST">>
MissingPreText == <<"MISSING", " ", "PRE">>
MismatchPrefix == <<"MISMATCH", ":", " ">>
Comma == <<",", " ">>

\* MissingPost deciding by the Post site label instead of the first status column
MissingPost_BySite(row, post, cols) == ~IsEmpty(post) /\ GetIsNa(row, SiteFile \o PostSuffix)

\* line 91, the condition
MissingPost(row, post, cols) == ~IsEmpty(post) /\ GetIsNa(row, cols[1] \o PostSuffix)

\* line 92, the condition
MissingPre(row, pre, cols) == ~IsEmpty(pre) /\ GetIsNa(row, cols[1] \o PreSuffix)

\* line 93, the comparison of one pair of cells
Differs(a, b) == Strip(PyStr(a)) # Strip(PyStr(b))

\* line 93: the status columns whose two cells differ, in column order
Diffs(row, cols) == SelectSeq(cols, LAMBDA c : Differs(row[c \o PreSuffix], row[c \o PostSuffix]))

\* ', '.join(labels)
RECURSIVE JoinComma(_)
JoinComma(labels) ==
  IF labels = <<>> THEN <<>>
  ELSE IF Len(labels) = 1 THEN labels[1]
  ELSE labels[1] \o Comma \o JoinComma(Tail(labels))

\* StatusText without the list of columns
StatusText_Bare(diffs) == IF diffs = <<>> THEN OkText ELSE MismatchPrefix

\* line 94
StatusText(diffs) == IF diffs = <<>> THEN OkText ELSE MismatchPrefix \o JoinComma(diffs)

\* verify asking for a missing Pre value first
verify_PreFirst(row, pre, post, cols) ==
  IF (~IsEmpty(post) \/ ~IsEmpty(pre)) /\ cols = <<>>
  THEN [raised |-> "IndexError", status |-> <<>>]
  ELSE IF MissingPre(row, pre, cols) THEN [raised |-> "", status |-> MissingPreText]
  ELSE IF MissingPost(row, post, cols) THEN [raised |-> "", status |-> MissingPostText]
  ELSE IF \E i \in DOMAIN cols :
            cols[i] \o PreSuffix \notin DOMAIN row \/ cols[i] \o PostSuffix \notin DOMAIN row
  THEN [raised |-> "KeyError", status |-> <<>>]
  ELSE [raised |-> "", status |-> StatusText(Diffs(row, cols))]

\* lines 90-94: [raised, status] for one joined record
verify(row, pre, post, cols) ==
  IF (~IsEmpty(post) \/ ~IsEmpty(pre)) /\ cols = <<>>
  THEN [raised |-> "IndexError", status |-> <<>>]
  ELSE IF MissingPost(row, post, cols) THEN [raised |-> "", status |-> MissingPostText]
  ELSE IF MissingPre(row, pre, cols) THEN [raised |-> "", status |-> MissingPreText]
  ELSE IF \E i \in DOMAIN cols :
            cols[i] \o PreSuffix \notin DOMAIN row \/ cols[i] \o PostSuffix \notin DOMAIN row
  THEN [raised |-> "KeyError", status |-> <<>>]
  ELSE [raised |-> "", status |-> StatusText(Diffs(row, cols))]

\* line 96: final_df['Audit_Status'] = final_df.apply(verify, axis=1)
WithStatus(df, results) ==
  [cols |-> Append(df.cols, AuditStatus),
   rows |-> IF df.rows = <<>> THEN <<>>
            ELSE [i \in 1 .. Len(df.rows) |->
                    [c \in Range(df.cols) \cup {AuditStatus} |->
                       IF c = AuditStatus THEN StrCell(results[i].status) ELSE df.rows[i][c]]]]

\* Where keeping the value whatever the condition
Where_Keep(v, cond) == v

\* ------------------------------------------------- column reconstruction
\* Series.where(cond): the value where cond holds, NaN elsewhere
Where(v, cond) == IF cond THEN v ELSE NaN

PreCols(cols) ==
  <<SiteFile \o PreSuffix, Sector \o PreSuffix, Name \o PreSuffix>> \o
  SeqMap(LAMBDA c : c \o PreSuffix, cols)

PostCols(cols) ==
  <<SiteFile \o PostSuffix, Sector \o PostSuffix, Name \o PostSuffix>> \o
  SeqMap(LAMBDA c : c \o PostSuffix, cols)

Layout(cols) == PreCols(cols) \o PostCols(cols) \o <<AuditStatus>>

\* lines 99-103: one record with the four per-side key fields added
Rederive(row) ==
  [c \in DOMAIN row \cup {Sector \o PreSuffix, Name \o PreSuffix,
                          Sector \o PostSuffix, Name \o PostSuffix} |->
     IF c = Sector \o PreSuffix THEN Where(row[Sector], ~IsNa(row[SiteFile \o PreSuffix]))
     ELSE IF c = Name \o PreSuffix THEN Where(row[Name], ~IsNa(row[SiteFile \o PreSuffix]))
     ELSE IF c = Sector \o PostSuffix THEN Where(row[Sector], ~IsNa(row[SiteFile \o PostSuffix]))
     ELSE IF c = Name \o PostSuffix THEN Where(row[Name], ~IsNa(row[SiteFile \o PostSuffix]))
     ELSE row[c]]

\* lines 99-107: [raised, df]; a label the frame lacks is a KeyError
Reconstruct(df, cols) ==
  LET have == Range(df.cols) \cup {Sector \o PreSuffix, Name \o PreSuffix,
                                     Sector \o PostSuffix, Name \o PostSuffix}
      layout == Layout(cols)
  IN IF SiteFile \o PreSuffix \notin Range(df.cols) \/ SiteFile \o PostSuffix \notin Range(df.cols)
        \/ \E i \in DOMAIN layout : layout[i] \notin have
     THEN [raised |-> "KeyError", df |-> NoFrame]
     ELSE [raised |-> "",
           df |-> [cols |-> layout,
                   rows |-> SeqMap(LAMBDA r : LET full == Rederive(r)
                                              IN [c \in Range(layout) |-> full[c]], df.rows)]]

\* ---------------------------------------------------- dashboard, export
\* Series.filter(like=word) on the status labels
Like(status, word) == word \in Range(status.s)

CountRows(df, Test(_)) == Cardinality({i \in DOMAIN df.rows : Test(df.rows[i][AuditStatus])})

\* lines 111-115: the three metrics
Dashboard(df) ==
  [total |-> Len(df.rows),
   mismatches |-> CountRows(df, LAMBDA st : Like(st, "MISMATCH")),
   missing |-> CountRows(df, LAMBDA st : Like(st, "MISSING"))]

\* ActionRequired keeping the MISMATCH rows only
ActionRequired_MismatchOnly(df) ==
  [cols |-> df.cols, rows |-> SelectSeq(df.rows, LAMBDA r : Like(r[AuditStatus], "MISMATCH"))]

\* line 123: final_df[final_df['Audit_Status'] != "OK"]
ActionRequired(df) ==
  [cols |-> df.cols, rows |-> SelectSeq(df.rows, LAMBDA r : r[AuditStatus] # StrCell(OkText))]

\* ----------------------------------------------------------- the handler
\* The handler's locals when nothing has been assigned yet.  joined is final_df
\* as lines 82-96 leave it, final_df is final_df as line 107 leaves it.
Unassigned ==
  [outcome |-> "error", error |-> "", df_pre |-> NoFrame, df_post |-> NoFrame,
   joined |-> NoFrame, status_cols |-> <<>>, final_df |-> NoFrame, df_action |-> NoFrame,
   dashboard |-> <<>>, download |-> FALSE]

FirstRaised(results) ==
  LET bad == SelectSeq(results, LAMBDA v : v.raised # "") IN IF bad = <<>> THEN "" ELSE bad[1].raised

\* lines 98-149, given the audited join: reconstruction, dashboard, export
Finish(pre, post, audited, cols, rec) ==
  IF rec.raised # ""
  THEN [Unassigned EXCEPT !.error = rec.raised, !.df_pre = pre, !.df_post = post,
                          !.joined = audited, !.status_cols = cols]
  ELSE [outcome |-> "done", error |-> "", df_pre |-> pre, df_post |-> post,
        joined |-> audited, status_cols |-> cols, final_df |-> rec.df,
        df_action |-> ActionRequired(rec.df),
        dashboard |-> <<Dashboard(rec.df)>>, download |-> TRUE]

\* line 96, given the merged frame: verify on every record
Audit(pre, post, merged, cols, results) ==
  IF FirstRaised(results) # ""
  THEN [Unassigned EXCEPT !.error = FirstRaised(results), !.df_pre = pre, !.df_post = post,
                          !.joined = merged, !.status_cols = cols]
  ELSE Finish(pre, post, WithStatus(merged, results), cols,
              Reconstruct(WithStatus(merged, results), cols))

\* lines 82-88, given the two unified tables
Join(pre, post, m, cols) ==
  IF m.raised # ""
  THEN [Unassigned EXCEPT !.error = m.raised, !.df_pre = pre, !.df_post = post]
  ELSE Audit(pre, post, m.df, cols, SeqMap(LAMBDA r : verify(r, pre, post, cols), m.df.rows))

\* lines 78-79, given what process_files returns for each uploader
Unify(p, q) ==
  IF p.raised # "" THEN [Unassigned EXCEPT !.error = p.raised]
  ELSE IF q.raised # "" THEN [Unassigned EXCEPT !.error = q.raised, !.df_pre = p.df]
  ELSE Join(p.df, q.df, Merge(p.df, q.df), StatusCols(p.df, q.df))

\* lines 62-152: the try block and its except clause, as the locals it leaves
RunAudit(pre, post) == Unify(Processed[pre], Processed[post])

\* ----------------------------------------------------------------- state
VARIABLES pre_files, post_files, outcome, error, df_pre, df_post, joined, status_cols,
          final_df, df_action, dashboard, download

inputs == <<pre_files, post_files>>
locals == <<outcome, error, df_pre, df_post, joined, status_cols, final_df, df_action,
            dashboard, download>>
vars == <<pre_files, post_files, outcome, error, df_pre, df_post, joined, status_cols,
          final_df, df_action, dashboard, download>>

\* a script run in which the button is not pressed shows no results
Cleared ==
  /\ outcome' = "idle"
  /\ error' = ""
  /\ df_pre' = NoFrame
  /\ df_post' = NoFrame
  /\ joined' = NoFrame
  /\ status_cols' = <<>>
  /\ final_df' = NoFrame
  /\ df_action' = NoFrame
  /\ dashboard' = <<>>
  /\ download' = FALSE

Init ==
  /\ pre_files = <<>>
  /\ post_files = <<>>
  /\ outcome = "idle"
  /\ error = ""
  /\ df_pre = NoFrame
  /\ df_post = NoFrame
  /\ joined = NoFrame
  /\ status_cols = <<>>
  /\ final_df = NoFrame
  /\ df_action = NoFrame
  /\ dashboard = <<>>
  /\ download = FALSE

Room(files) == Len(files) < MaxDocs /\ Len(pre_files) + Len(post_files) < MaxTotal

\* lines 45-46: a file is added in the left uploader; only precheck* names are kept
UploadPre(f) ==
  /\ Room(pre_files)
  /\ pre_files' = IF StartsWithLower(f.name, "precheck") THEN Append(pre_files, f) ELSE pre_files
  /\ post_files' = post_files
  /\ Cleared

\* lines 53-54: a file is added in the right uploader; only postcheck* names are kept
UploadPost(f) ==
  /\ Room(post_files)
  /\ post_files' = IF StartsWithLower(f.name, "postcheck") THEN Append(post_files, f) ELSE post_files
  /\ pre_files' = pre_files
  /\ Cleared

\* lines 60-152: the button is pressed with at least one validated file (pressing
\* it again on the same files shows the same results, a step that changes nothing)
Execute ==
  /\ outcome = "idle"
  /\ pre_files # <<>> \/ post_files # <<>>
  /\ \E run \in {RunAudit(pre_files, post_files)} :
        /\ outcome' = run.outcome
        /\ error' = run.error
        /\ df_pre' = run.df_pre
        /\ df_post' = run.df_post
        /\ joined' = run.joined
        /\ status_cols' = run.status_cols
        /\ final_df' = run.final_df
        /\ df_action' = run.df_action
        /\ dashboard' = run.dashboard
        /\ download' = run.download
  /\ UNCHANGED inputs

Next ==
  \/ \E f \in PreDocs : UploadPre(f)
  \/ \E f \in PostDocs : UploadPost(f)
  \/ Execute

Spec == Init /\ [][Next]_vars

\* ------------------------------------------------------------ properties
Ran == outcome # "idle"
Done == outcome = "done"

\* every uploaded file of the list has a Summary sheet
WellFormed(files) == \A i \in DOMAIN files : HasSummary(files[i])

\* some uploaded file of the list has a data row
HasDataRow(files) == \E i \in DOMAIN files : files[i].summary.rows # <<>>

\* verify has run on every joined record
Audited == AuditStatus \in Range(joined.cols)

StatusOf(r) == r[AuditStatus].s

\* a field that is absent or NaN
Null(r, label) == label \notin DOMAIN r \/ r[label].t = "nan"

\* the trimmed string form of a cell
TrimmedText(c) == Strip(PyStr(c))

\* the labels of a ', '-separated list
RECURSIVE SplitList(_)
SplitList(text) ==
  LET cuts == {i \in 1 .. Len(text) - 1 : text[i] = "," /\ text[i + 1] = " "}
  IN IF cuts = {} THEN <<text>>
     ELSE LET i == CHOOSE j \in cuts : \A k \in cuts : j <= k
          IN <<SubSeq(text, 1, i - 1)>> \o SplitList(SubSeq(text, i + 2, Len(text)))

IsMismatch(text) == Len(text) > 3 /\ SubSeq(text, 1, 3) = <<"MISMATCH", ":", " ">>

\* the columns a 'MISMATCH: ...' status lists
Listed(text) == SplitList(SubSeq(text, 4, Len(text)))

\* the status columns of a unified table, from its labels
StatusLabels(df) == {c \in Range(df.cols) : c \notin {<<"Site_File">>, <<"Sector">>, <<"Name">>}}

Authoritative == IF df_pre.rows # <<>> THEN StatusLabels(df_pre) ELSE StatusLabels(df_post)

RowsWithKey(df, k) == {i \in DOMAIN df.rows : <<df.rows[i][Sector], df.rows[i][Name]>> = k}

\* C1: a run with no file of one role and a data row of the other completes,
\* and every row of its report is MISSING PRE (no Pre file) or MISSING POST
\* (no Post file).
C1_EmptyInputNotFatal ==
  (Ran /\ WellFormed(pre_files) /\ WellFormed(post_files)
       /\ ((pre_files = <<>> /\ HasDataRow(post_files)) \/ (post_files = <<>> /\ HasDataRow(pre_files))))
  => /\ Done
     /\ final_df.rows # <<>>
     /\ \A i \in DOMAIN final_df.rows :
          StatusOf(final_df.rows[i]) =
            IF pre_files = <<>> THEN <<"MISSING", " ", "PRE">> ELSE <<"MISSING", " ", "POST">>

\* C2: first match wins: a joined record is MISSING POST exactly when the Post
\* table is non-empty and its first status column's _Post value is null;
\* otherwise MISSING PRE exactly when the Pre table is non-empty and the _Pre
\* value is null; null on both sides is MISSING POST.
C2_Precedence ==
  Audited =>
    \A i \in DOMAIN joined.rows :
      LET r == joined.rows[i]
          first == status_cols[1]
          postGone == df_post.rows # <<>> /\ Null(r, first \o <<"_Post">>)
          preGone == df_pre.rows # <<>> /\ Null(r, first \o <<"_Pre">>)
      IN /\ StatusOf(r) = <<"MISSING", " ", "POST">> <=> postGone
         /\ StatusOf(r) = <<"MISSING", " ", "PRE">> <=> (~postGone /\ preGone)
         /\ (postGone /\ preGone) => StatusOf(r) # <<"MISSING", " ", "PRE">>

C2_Witness ==
  /\ Audited
  /\ df_pre.rows # <<>>
  /\ df_post.rows # <<>>
  /\ \E i \in DOMAIN joined.rows :
       /\ Null(joined.rows[i], status_cols[1] \o <<"_Post">>)
       /\ Null(joined.rows[i], status_cols[1] \o <<"_Pre">>)
       /\ joined.rows[i][<<"Site_File", "_Pre">>].t = "str"
       /\ joined.rows[i][<<"Site_File", "_Post">>].t = "str"
       /\ StatusOf(joined.rows[i]) = <<"MISSING", " ", "POST">>

Missing(r) == StatusOf(r) \in {<<"MISSING", " ", "POST">>, <<"MISSING", " ", "PRE">>}

\* the status columns whose two cells have different trimmed string forms
Differing(r) ==
  SelectSeq(status_cols,
            LAMBDA c : TrimmedText(r[c \o <<"_Pre">>]) # TrimmedText(r[c \o <<"_Post">>]))

\* a cell without its type and its surrounding whitespace: a number as its digits
Canonical(c) == IF c.t \in {"int", "float"} THEN SignedDigits(c.n) ELSE TrimmedText(c)

\* C3: a joined record that is not missing is OK exactly when every status
\* column has equal trimmed string forms on both sides, and otherwise is
\* 'MISMATCH: ' followed by exactly the differing columns, in column order; a
\* column whose two cells differ only in surrounding whitespace or in type is
\* never listed.
C3_Comparison ==
  Audited =>
    \A i \in DOMAIN joined.rows :
      LET r == joined.rows[i]
      IN ~Missing(r) =>
           /\ StatusOf(r) = <<"OK">> <=> Differing(r) = <<>>
           /\ StatusOf(r) # <<"OK">> =>
                /\ IsMismatch(StatusOf(r))
                /\ Listed(StatusOf(r)) = Differing(r)
           /\ \A j \in DOMAIN status_cols :
                Canonical(r[status_cols[j] \o <<"_Pre">>]) =
                  Canonical(r[status_cols[j] \o <<"_Post">>])
                => ~(IsMismatch(StatusOf(r)) /\ status_cols[j] \in Range(Listed(StatusOf(r))))

\* the merge has returned
Merged == joined.cols # <<>>

\* a cell as the join holds it: the same cell, or the int as a float
SameValue(a, b) == a = b \/ (a.t = "float" /\ b.t = "int" /\ a.n = b.n)

\* the joined record r holds the row of df on the side named by suffix
Carries(r, row, df, suffix) ==
  /\ r[<<"Site_File">> \o suffix] = row[<<"Site_File">>]
  /\ r[<<"Sector">>] = row[<<"Sector">>]
  /\ r[<<"Name">>] = row[<<"Name">>]
  /\ \A c \in StatusLabels(df) :
       LET label == IF c \o suffix \in DOMAIN r THEN c \o suffix ELSE c
       IN SameValue(r[label], row[c])

KeysOf(df) == {<<df.rows[i][<<"Sector">>], df.rows[i][<<"Name">>]>> : i \in DOMAIN df.rows}

Count(df, k) == Cardinality(RowsWithKey(df, k))

UniqueKeys == \A k \in KeysOf(df_pre) \cup KeysOf(df_post) : Count(df_pre, k) <= 1 /\ Count(df_post, k) <= 1

Larger(a, b) == IF a >= b THEN a ELSE b

\* C4: after the outer join every Pre row and every Post row is in some joined
\* record; a key with p Pre rows and q Post rows has p*q records when both are
\* positive and p+q otherwise; with unique keys the records are as many as the
\* distinct keys, and at least max(|Pre|, |Post|).
C4_JoinComplete ==
  Merged =>
    /\ \A i \in DOMAIN df_pre.rows :
         \E j \in DOMAIN joined.rows : Carries(joined.rows[j], df_pre.rows[i], df_pre, <<"_Pre">>)
    /\ \A i \in DOMAIN df_post.rows :
         \E j \in DOMAIN joined.rows : Carries(joined.rows[j], df_post.rows[i], df_post, <<"_Post">>)
    /\ KeysOf(joined) = KeysOf(df_pre) \cup KeysOf(df_post)
    /\ \A k \in KeysOf(joined) :
         LET pn == Count(df_pre, k)
             qn == Count(df_post, k)
         IN Count(joined, k) = IF pn > 0 /\ qn > 0 THEN pn * qn ELSE pn + qn
    /\ UniqueKeys =>
         /\ Len(joined.rows) = Cardinality(KeysOf(df_pre) \cup KeysOf(df_post))
         /\ Len(joined.rows) >= Larger(Len(df_pre.rows), Len(df_post.rows))

C4_Witness ==
  /\ Merged
  /\ \E k \in KeysOf(joined) :
       /\ Count(df_pre, k) + Count(df_post, k) = 3
       /\ Count(df_pre, k) > 0
       /\ Count(df_post, k) > 0
       /\ Count(joined, k) = 2

\* C5: every row of a report has a status that is OK, MISSING PRE, MISSING POST,
\* or MISMATCH: followed by a non-empty list of distinct authoritative status
\* columns (Pre's when Pre is non-empty, else Post's).
C5_StatusCoverage ==
  Done =>
    \A i \in DOMAIN final_df.rows :
      LET st == StatusOf(final_df.rows[i])
      IN \/ st \in {<<"OK">>, <<"MISSING", " ", "PRE">>, <<"MISSING", " ", "POST">>}
         \/ /\ IsMismatch(st)
            /\ \A j \in DOMAIN Listed(st) : Listed(st)[j] \in Authoritative
            /\ \A j, k \in DOMAIN Listed(st) : Listed(st)[j] = Listed(st)[k] => j = k

C5_Witness ==
  /\ Done
  /\ \E i \in DOMAIN final_df.rows : Listed(StatusOf(final_df.rows[i])) = << <<"A">>, <<"B">> >>
                                     /\ IsMismatch(StatusOf(final_df.rows[i]))

\* the authoritative status columns in order
AuthoritativeSeq ==
  SelectSeq(IF df_pre.rows # <<>> THEN df_pre.cols ELSE df_post.cols,
            LAMBDA c : c \notin {<<"Site_File">>, <<"Sector">>, <<"Name">>})

\* C6: in a run with a non-empty role whose join has returned, every joined
\* record has a c_Pre and a c_Post field for every authoritative status column
\* c, also when the other side has no column c.
C6_BothFields ==
  (Merged /\ (df_pre.rows # <<>> \/ df_post.rows # <<>>)) =>
    \A j \in DOMAIN AuthoritativeSeq :
      /\ AuthoritativeSeq[j] \o <<"_Pre">> \in Range(joined.cols)
      /\ AuthoritativeSeq[j] \o <<"_Post">> \in Range(joined.cols)
      /\ \A i \in DOMAIN joined.rows :
           {AuthoritativeSeq[j] \o <<"_Pre">>, AuthoritativeSeq[j] \o <<"_Post">>}
             \subseteq DOMAIN joined.rows[i]

\* the per-side key fields of the i-th report row against the i-th joined record
KeyFields(i, df, suffix, strict) ==
  LET f == final_df.rows[i]
      j == joined.rows[i]
      k == <<j[<<"Sector">>], j[<<"Name">>]>>
      site == f[<<"Site_File">> \o suffix]
      sec == f[<<"Sector">> \o suffix]
      nam == f[<<"Name">> \o suffix]
  IN /\ site.t # "nan" => (sec = k[1] /\ nam = k[2])
     /\ site.t = "nan" => (sec.t = "nan" /\ nam.t = "nan")
     /\ site.t # "nan" <=> RowsWithKey(df, k) # {}
     /\ sec.t = "nan" => (RowsWithKey(df, k) = {} \/ (~strict /\ k[1].t = "nan"))
     /\ nam.t = "nan" => (RowsWithKey(df, k) = {} \/ (~strict /\ k[2].t = "nan"))

\* C7 as stated: in every report row a side's Sector and Name equal the join key
\* when that side contributed a row (its Site_File is non-null) and are null
\* otherwise, and they are null only when that side had no row for the key.
C7_KeyFields ==
  Done => \A i \in DOMAIN final_df.rows :
            KeyFields(i, df_pre, <<"_Pre">>, TRUE) /\ KeyFields(i, df_post, <<"_Post">>, TRUE)

\* C7 as amended: ... and they are null only when that side had no row for the
\* key or the key value itself is null (a blank Sector or Name cell).
C7_KeyFieldsAmended ==
  Done => \A i \in DOMAIN final_df.rows :
            KeyFields(i, df_pre, <<"_Pre">>, FALSE) /\ KeyFields(i, df_post, <<"_Post">>, FALSE)

C7_Witness ==
  /\ Done
  /\ \E i, j \in DOMAIN final_df.rows :
       /\ final_df.rows[i][<<"Site_File", "_Pre">>].t = "str"
       /\ final_df.rows[i][<<"Site_File", "_Post">>].t = "nan"
       /\ final_df.rows[i][<<"Name", "_Pre">>].t = "nan"
       /\ final_df.rows[i][<<"Sector", "_Pre">>].t = "str"
       /\ final_df.rows[i][<<"Sector", "_Post">>].t = "nan"
       /\ final_df.rows[j][<<"Site_File", "_Pre">>].t = "nan"
       /\ final_df.rows[j][<<"Name", "_Post">>].t = "str"
       /\ final_df.rows[j][<<"Name", "_Pre">>].t = "nan"

\* a is b with some elements left out
RECURSIVE Embeds(_, _)
Embeds(a, b) ==
  IF a = <<>> THEN TRUE
  ELSE IF b = <<>> THEN FALSE
  ELSE IF Head(a) = Head(b) THEN Embeds(Tail(a), Tail(b))
  ELSE Embeds(a, Tail(b))

NotOk(df) == {i \in DOMAIN df.rows : StatusOf(df.rows[i]) # <<"OK">>}

\* C8: the Action Required table is the rows of the full report whose status is
\* not OK, in the report's order; it has as many rows as there are joined records
\* that are not OK, and the full report has as many rows as joined records.
C8_ActionFilter ==
  Done =>
    /\ Len(final_df.rows) = Len(joined.rows)
    /\ df_action.cols = final_df.cols
    /\ Len(df_action.rows) = Cardinality(NotOk(joined))
    /\ Len(df_action.rows) = Cardinality(NotOk(final_df))
    /\ NotOk(df_action) = DOMAIN df_action.rows
    /\ Embeds(df_action.rows, final_df.rows)

C8_Witness ==
  /\ Done
  /\ Len(final_df.rows) = 2
  /\ StatusOf(final_df.rows[1]) = <<"OK">>
  /\ StatusOf(final_df.rows[2]) # <<"OK">>
  /\ df_action.rows = <<final_df.rows[2]>>

\* C9: a file without a Summary sheet, in either uploader and at any position,
\* ends the run in the error outcome with no dashboard, no report and no download.
C9_MalformedAborts ==
  (Ran /\ ~(WellFormed(pre_files) /\ WellFormed(post_files))) =>
    /\ outcome = "error"
    /\ dashboard = <<>>
    /\ download = FALSE
    /\ final_df = [cols |-> <<>>, rows |-> <<>>]
    /\ df_action = [cols |-> <<>>, rows |-> <<>>]

C9_Witness ==
  /\ outcome = "error"
  /\ Len(pre_files) = 2
  /\ "Summary" \in pre_files[1].sheets
  /\ pre_files[1].summary.rows # <<>>
  /\ "Summary" \notin pre_files[2].sheets
  /\ Len(post_files) = 1
  /\ post_files[1].summary.rows # <<>>

InTable(r, df) == RowsWithKey(df, <<r[<<"Sector">>], r[<<"Name">>]>>) # {}

\* C10 as stated: with both tables non-empty, a joined record whose key is only
\* in Pre is MISSING POST and one whose key is only in Post is MISSING PRE,
\* whatever the cells of the contributing row.
C10_MissingSide ==
  (Audited /\ df_pre.rows # <<>> /\ df_post.rows # <<>>) =>
    \A i \in DOMAIN joined.rows :
      LET r == joined.rows[i]
      IN /\ (InTable(r, df_pre) /\ ~InTable(r, df_post)) => StatusOf(r) = <<"MISSING", " ", "POST">>
         /\ (InTable(r, df_post) /\ ~InTable(r, df_pre)) => StatusOf(r) = <<"MISSING", " ", "PRE">>

\* C10 as amended: ... one whose key is only in Post is MISSING PRE when the Post
\* row's first status column is non-null, and MISSING POST when it is null.
C10_MissingSideAmended ==
  (Audited /\ df_pre.rows # <<>> /\ df_post.rows # <<>>) =>
    \A i \in DOMAIN joined.rows :
      LET r == joined.rows[i]
      IN /\ (InTable(r, df_pre) /\ ~InTable(r, df_post)) => StatusOf(r) = <<"MISSING", " ", "POST">>
         /\ (InTable(r, df_post) /\ ~InTable(r, df_pre)) =>
              StatusOf(r) = IF Null(r, status_cols[1] \o <<"_Post">>)
                            THEN <<"MISSING", " ", "POST">>
                            ELSE <<"MISSING", " ", "PRE">>

C10_Witness ==
  /\ Audited
  /\ df_pre.rows # <<>>
  /\ df_post.rows # <<>>
  /\ \E i, j \in DOMAIN joined.rows :
       /\ InTable(joined.rows[i], df_post) /\ ~InTable(joined.rows[i], df_pre)
       /\ StatusOf(joined.rows[i]) = <<"MISSING", " ", "POST">>
       /\ InTable(joined.rows[j], df_pre) /\ ~InTable(joined.rows[j], df_post)
       /\ Null(joined.rows[j], status_cols[1] \o <<"_Pre">>)

====
